---- MODULE Spec2Model ----
(***************************************************************************)
(* A model of py.py, the asset extraction pipeline: discovery of the       *)
(* source tree, validation, submission of every valid path to a process    *)
(* pool, the three converters run by the pool's workers, collection of     *)
(* the outcomes and the final JSON report.                                 *)
(*                                                                         *)
(* Strings (paths, file names) are sequences of tokens: "/" is a token and *)
(* so is every name part and suffix (".plist", "en", ".lproj").  The       *)
(* string operations of the code (replace, startswith, endswith, in,       *)
(* os.path.join, dirname, basename) are computed on these sequences as     *)
(* Python computes them on characters.                                     *)
(***************************************************************************)
EXTENDS Integers, Sequences, FiniteSets, TLC

(***************************************************************************)
(* Bounds of the model.                                                    *)
(***************************************************************************)
MaxFiles == 2
MaxWorkers == 2
MaxKeys == 2

(***************************************************************************)
(* String operations.                                                      *)
(***************************************************************************)
StartsWith(s, pre) ==
    /\ Len(pre) <= Len(s)
    /\ SubSeq(s, 1, Len(pre)) = pre

EndsWith(s, suf) ==
    /\ Len(suf) <= Len(s)
    /\ SubSeq(s, Len(s) - Len(suf) + 1, Len(s)) = suf

\* sub in s
Contains(s, sub) ==
    \E i \in 1..(Len(s) - Len(sub) + 1) : SubSeq(s, i, i + Len(sub) - 1) = sub

\* s.replace(old, new): every non-overlapping occurrence, left to right
RECURSIVE Replace(_, _, _)
Replace(s, old, new) ==
    IF Len(s) < Len(old) \/ Len(old) = 0 THEN s
    ELSE IF StartsWith(s, old)
         THEN new \o Replace(SubSeq(s, Len(old) + 1, Len(s)), old, new)
         ELSE <<Head(s)>> \o Replace(Tail(s), old, new)

\* s.rfind('/') + 1
LastSlash(s) ==
    LET at == {i \in 1..Len(s) : s[i] = "/"}
    IN  IF at = {} THEN 0 ELSE CHOOSE i \in at : \A j \in at : j <= i

RECURSIVE RStripSlash(_)
RStripSlash(s) ==
    IF Len(s) > 0 /\ s[Len(s)] = "/" THEN RStripSlash(SubSeq(s, 1, Len(s) - 1)) ELSE s

\* os.path.dirname
Dirname(p) ==
    LET head == SubSeq(p, 1, LastSlash(p))
    IN  IF head # <<>> /\ (\E i \in 1..Len(head) : head[i] # "/")
        THEN RStripSlash(head)
        ELSE head

\* os.path.basename
Basename(p) == SubSeq(p, LastSlash(p) + 1, Len(p))

\* os.path.join(a, b)
Join(a, b) ==
    IF Len(b) > 0 /\ b[1] = "/" THEN b
    ELSE IF a = <<>> \/ a[Len(a)] = "/" THEN a \o b
    ELSE a \o <<"/">> \o b

\* os.path.join(a, b, c)
Join3(a, b, c) == Join(Join(a, b), c)

\* s.lower() on the values the third argument takes in the model
Lower(s) ==
    CASE s = "True" -> "true"
      [] s = "TRUE" -> "true"
      [] OTHER -> s

(***************************************************************************)
(* The command line (sys.argv[1], sys.argv[2]) and what the module derives *)
(* from it at import time.                                                 *)
(***************************************************************************)
parsedFolderPath == <<"/", "src", "/", "System">>
finalBaseRepoPath == <<"/", "repo", "/", "System">>
osSpecificRootPath == Dirname(finalBaseRepoPath)
finalBaseRepoImagesPath == Join(osSpecificRootPath, <<"images">>)

\* the values of the optional third argument; "" when it is not given
Argv3Values == {"", "True", "false"}

\* SKIP_INFO_PLIST as the module computes it from the third argument
SkipInfoPlistOf(a) == IF a = "" THEN FALSE ELSE Lower(a) = "true"

extensions ==
    << <<".loctable">>, <<".png">>, <<".jpg">>, <<".heif">>, <<".ico">>, <<".plist">> >>

imageExtensions == << <<".png">>, <<".jpg">>, <<".heif">>, <<".ico">> >>

(***************************************************************************)
(* The source tree.  A file is its path, whether os.path.exists holds of   *)
(* it (a dangling symlink is listed by the walk and does not exist), and   *)
(* what the external tools (plutil, cp, the destination's file system) do  *)
(* with it:                                                                *)
(*   ok          every step succeeds                                       *)
(*   noEn        plutil succeeds, the table has no "en" entry              *)
(*   decodeFail  plutil (or json.load) fails                               *)
(*   writeFail   writing the output file fails part way                    *)
(*   cpFail      cp fails part way, with a message on stderr               *)
(***************************************************************************)
Under(rel) == parsedFolderPath \o <<"/">> \o rel

File(rel, ex, e) == [path |-> Under(rel), exists |-> ex, env |-> e]

\* the paths in the order the walk lists them
WalkOrder ==
    << Under(<<"a", "/", "Localizable", ".loctable">>),
       Under(<<"b", "/", "icon", ".png">>),
       Under(<<"b", "/", "src", "/", "System", "/", "icon", ".png">>),
       Under(<<"c", "/", "Prefs", ".plist">>),
       Under(<<"c", "/", "ghost", ".plist">>),
       Under(<<"d", "/", "Info", ".plist">>),
       Under(<<"e", "/", "notes", ".txt">>),
       Under(<<"e", "/", "ghost", ".txt">>) >>

Catalogue ==
    {File(<<"a", "/", "Localizable", ".loctable">>, TRUE, e) :
        e \in {"ok", "noEn", "decodeFail", "writeFail"}}
    \cup {File(<<"b", "/", "icon", ".png">>, TRUE, e) : e \in {"ok", "cpFail"}}
    \cup {File(<<"b", "/", "src", "/", "System", "/", "icon", ".png">>, TRUE, "ok")}
    \cup {File(<<"c", "/", "Prefs", ".plist">>, TRUE, e) : e \in {"ok", "decodeFail", "cpFail"}}
    \cup {File(<<"c", "/", "ghost", ".plist">>, FALSE, "ok")}
    \cup {File(<<"d", "/", "Info", ".plist">>, TRUE, e) : e \in {"ok", "cpFail"}}
    \cup {File(<<"e", "/", "notes", ".txt">>, TRUE, "ok")}
    \cup {File(<<"e", "/", "ghost", ".txt">>, FALSE, "ok")}

Trees ==
    {t \in SUBSET Catalogue :
        /\ Cardinality(t) <= MaxFiles
        /\ \A f, g \in t : f.path = g.path => f = g}

\* names tempfile.NamedTemporaryFile may draw
TmpNames == {"tmpA", "tmpB"}

TmpPath(name) == <<"/", "tmp", "/", name, ".xml", ".plist">>

(***************************************************************************)
(* Outcomes.  A task's result is None, a failure dictionary, or an         *)
(* exception carried by its future.  An error message is a str or, when    *)
(* it is the captured stderr of a subprocess run without text=True, bytes. *)
(***************************************************************************)
None == [kind |-> "none"]
Raised == [kind |-> "exc"]
Continue == [kind |-> "continue"]

Str(t) == [type |-> "str", text |-> t]
Bytes(t) == [type |-> "bytes", text |-> t]

Failure(file_path, msg, fn) ==
    [kind |-> "failure", filepath |-> file_path, errorMessage |-> msg, function |-> fn]

(***************************************************************************)
(* Path mapping of the converters.                                         *)
(***************************************************************************)
\* relPathInDMG of the three converters
RelPathInDMG(file_path, root) ==
    LET rel == Replace(file_path, root, <<>>)
    IN  IF StartsWith(rel, <<"/">>) THEN Tail(rel) ELSE rel

\* outputDir and outputFile of convert_loctable_to_strings
LoctableOutputDir(file_path) ==
    Join3(finalBaseRepoPath, Dirname(RelPathInDMG(file_path, parsedFolderPath)),
          <<"en", ".lproj">>)

LoctableOutputFile(file_path) ==
    Join(LoctableOutputDir(file_path),
         Replace(Basename(file_path), <<".loctable">>, <<".strings">>))

\* outputPath of add_image_file_to_repo, and the file cp creates in it, for a
\* source root and an images root
ImageOutputPathIn(file_path, root, images) ==
    Join3(images, Basename(root), Dirname(RelPathInDMG(file_path, root)))

ImageOutputFileIn(file_path, root, images) ==
    Join(ImageOutputPathIn(file_path, root, images), Basename(file_path))

ImageOutputPath(file_path) ==
    ImageOutputPathIn(file_path, parsedFolderPath, finalBaseRepoImagesPath)

ImageOutputFile(file_path) ==
    ImageOutputFileIn(file_path, parsedFolderPath, finalBaseRepoImagesPath)

\* outputPath of add_plist_file_to_repo, and the file cp creates in it: cp is
\* given the temporary file and the directory, so the copy bears the temporary
\* file's name
PlistOutputPath(file_path) ==
    Join(finalBaseRepoPath, Dirname(RelPathInDMG(file_path, parsedFolderPath)))

PlistOutputFile(file_path, tmp) == Join(PlistOutputPath(file_path), Basename(TmpPath(tmp)))

\* the two exclusions of add_plist_file_to_repo
PlistExcluded(file_path) ==
    LET rel == RelPathInDMG(file_path, parsedFolderPath)
    IN  \/ Contains(rel, <<".lproj">>) /\ ~Contains(rel, <<"en", ".lproj">>)
        \/ Contains(file_path, <<".xml", ".plist">>)

(***************************************************************************)
(* Discovery and dispatch.                                                 *)
(***************************************************************************)
\* any(filename.endswith(ext) for ext in extensions)
MatchesExtension(filename, exts) ==
    \E i \in 1..Len(exts) : EndsWith(filename, exts[i])

\* discover_files_fast without the test of the name
discover_files_unfiltered(t, exts) ==
    LET Listed(p) == \E f \in t : f.path = p
    IN  SelectSeq(WalkOrder, Listed)

\* discover_files_fast: the listed files whose name matches, in walk order
discover_files_fast(t, exts) ==
    LET Listed(p) ==
            /\ \E f \in t : f.path = p
            /\ MatchesExtension(Basename(p), exts)
    IN  SelectSeq(WalkOrder, Listed)

\* process_file_by_extension without the Info.plist test
process_file_by_extension_noskip(file_path, skip) ==
    IF EndsWith(file_path, <<".loctable">>) THEN "loctable"
    ELSE IF MatchesExtension(file_path, imageExtensions) THEN "image"
    ELSE IF EndsWith(file_path, <<".plist">>) THEN "plist"
    ELSE "none"

\* process_file_by_extension: the converter the path is dispatched to, "skip"
\* for a skipped Info.plist and "none" when no branch applies
process_file_by_extension(file_path, skip) ==
    IF skip /\ Basename(file_path) = <<"Info", ".plist">> THEN "skip"
    ELSE IF EndsWith(file_path, <<".loctable">>) THEN "loctable"
    ELSE IF MatchesExtension(file_path, imageExtensions) THEN "image"
    ELSE IF EndsWith(file_path, <<".plist">>) THEN "plist"
    ELSE "none"

(***************************************************************************)
(* The converters, each in two steps: up to the point where the output     *)
(* file is opened at its destination (start), and the writing of it        *)
(* (finish).  start gives the result when the converter returns before     *)
(* writing, the directories os.makedirs creates and the output file.       *)
(***************************************************************************)
Returned(r, mk) == [ret |-> r, mkdirs |-> mk, out |-> <<>>]
Writing(mk, o) == [ret |-> Continue, mkdirs |-> mk, out |-> o]

convert_loctable_start(f) ==
    IF f.env = "decodeFail"
    THEN Returned(Failure(f.path, Str("plutil"), "convert_loctable_to_strings"), {})
    ELSE IF f.env = "noEn" THEN Returned(None, {})
    ELSE Writing({RStripSlash(LoctableOutputDir(f.path))}, LoctableOutputFile(f.path))

convert_loctable_finish(f) ==
    IF f.env = "writeFail"
    THEN Failure(f.path, Str("write"), "convert_loctable_to_strings")
    ELSE None

add_image_start(f) ==
    Writing({RStripSlash(ImageOutputPath(f.path))}, ImageOutputFile(f.path))

add_image_finish(f) ==
    IF f.env = "cpFail"
    THEN Failure(f.path, Bytes("cp"), "add_image_file_to_repo")
    ELSE None

add_plist_start(f, tmp) ==
    IF PlistExcluded(f.path) THEN Returned(None, {})
    ELSE IF f.env = "decodeFail"
    THEN Returned(Failure(f.path, Str("plutil"), "add_plist_file_to_repo"),
                  {RStripSlash(PlistOutputPath(f.path))})
    ELSE Writing({RStripSlash(PlistOutputPath(f.path))}, PlistOutputFile(f.path, tmp))

add_plist_finish(f) ==
    IF f.env = "cpFail"
    THEN Failure(f.path, Bytes("cp"), "add_plist_file_to_repo")
    ELSE None

ConverterStart(conv, f, tmp) ==
    CASE conv = "loctable" -> convert_loctable_start(f)
      [] conv = "image" -> add_image_start(f)
      [] conv = "plist" -> add_plist_start(f, tmp)
      [] OTHER -> Returned(None, {})

ConverterFinish(conv, f) ==
    CASE conv = "loctable" -> convert_loctable_finish(f)
      [] conv = "image" -> add_image_finish(f)
      [] OTHER -> add_plist_finish(f)

(***************************************************************************)
(* State.                                                                  *)
(***************************************************************************)
VARIABLES
    tree,                     \* the source tree (never written)
    argv3,                    \* sys.argv[3], "" when absent
    rootIsDir,                \* os.path.isdir(parsedFolderPath)
    max_workers,              \* multiprocessing.cpu_count()
    pc,                       \* where the main process is
    target_files,             \* find_and_process_files_streaming's locals
    valid_files,
    futures,
    completed,
    errorArrayWithFilepaths,  \* the module's error list, in the main process
    workers,                  \* the pool's worker processes
    broken,                   \* the executor is broken (a worker process died)
    stats,                    \* what find_and_process_files_streaming returns
    output,                   \* what is printed to stdout
    dest,                     \* files under the destination roots
    dirs,                     \* directories created under the destination roots
    run,                      \* which invocation of the program this is
    prev,                     \* what the previous invocation left
    probe                     \* one call of a converter's pure part: its
                              \* arguments, and its result once computed

vars ==
    <<tree, argv3, rootIsDir, max_workers, pc, target_files, valid_files, futures,
      completed, errorArrayWithFilepaths, workers, broken, stats, output, dest,
      dirs, run, prev, probe>>

SKIP_INFO_PLIST == SkipInfoPlistOf(argv3)

FileAt(path) == CHOOSE f \in tree : f.path = path

Idle == [fut |-> 0, out |-> <<>>, tmp |-> ""]

\* a file of the destination: its path, the source file it was made from and
\* whether it was written in full
DestFile(p, s, st) == [path |-> p, src |-> s, st |-> st]

\* opening p for writing creates it or truncates it
DestPut(d, p, s, st) == {e \in d : e.path # p} \cup {DestFile(p, s, st)}

Future(p) ==
    [path |-> p, state |-> "pending", result |-> None, conv |-> "", out |-> <<>>,
     collected |-> "no"]

\* the state of the main process and the pool when the program starts
Fresh ==
    /\ pc = "main"
    /\ target_files = <<>>
    /\ valid_files = <<>>
    /\ futures = <<>>
    /\ completed = 0
    /\ errorArrayWithFilepaths = <<>>
    /\ workers = [w \in 1..MaxWorkers |-> Idle]
    /\ broken = FALSE
    /\ stats = None
    /\ output = None
    /\ dest = {}
    /\ dirs = {}

Init ==
    /\ tree \in Trees
    /\ argv3 \in Argv3Values
    /\ rootIsDir \in BOOLEAN
    /\ max_workers \in 1..MaxWorkers
    /\ run = 1
    /\ prev = None
    /\ probe = None
    /\ Fresh

(***************************************************************************)
(* The main process.                                                       *)
(***************************************************************************)
\* __main__: the isdir test
MainCheck ==
    /\ pc = "main"
    /\ pc' = IF rootIsDir THEN "discover" ELSE "exit1"
    /\ UNCHANGED <<tree, argv3, rootIsDir, max_workers, target_files, valid_files,
                   futures, completed, errorArrayWithFilepaths, workers, broken,
                   stats, output, dest, dirs, run, prev, probe>>

\* the statistics of a run that found no file
EmptyStats ==
    [kind |-> "stats", files_found |-> 0, valid_files_processed |-> 0, error_count |-> 0]

\* find_and_process_files_streaming up to the early return
Discover ==
    /\ pc = "discover"
    /\ target_files' = discover_files_fast(tree, extensions)
    /\ IF Len(target_files') = 0
       THEN /\ stats' = EmptyStats
            /\ pc' = "emit"
       ELSE /\ stats' = stats
            /\ pc' = "validate"
    /\ UNCHANGED <<tree, argv3, rootIsDir, max_workers, valid_files, futures,
                   completed, errorArrayWithFilepaths, workers, broken, output,
                   dest, dirs, run, prev, probe>>

\* a validation loop that does not test os.path.exists
PathExistsUntested(file_path) == TRUE

\* os.path.exists
PathExists(file_path) == FileAt(file_path).exists

ValidationFailure(file_path) ==
    Failure(file_path, Str("Broken symlink or file not found"),
            "find_and_process_files_streaming (validation)")

\* a validation loop that keeps every listed path
ValidFilesNoElse(files) == files

RECURSIVE ValidFiles(_)
ValidFiles(files) ==
    IF files = <<>> THEN <<>>
    ELSE IF PathExists(Head(files))
         THEN <<Head(files)>> \o ValidFiles(Tail(files))
         ELSE ValidFiles(Tail(files))

RECURSIVE ValidationErrors(_)
ValidationErrors(files) ==
    IF files = <<>> THEN <<>>
    ELSE IF PathExists(Head(files))
         THEN ValidationErrors(Tail(files))
         ELSE <<ValidationFailure(Head(files))>> \o ValidationErrors(Tail(files))

\* the validation loop, and the entry of the executor's with block
Validate ==
    /\ pc = "validate"
    /\ valid_files' = ValidFiles(target_files)
    /\ errorArrayWithFilepaths' = errorArrayWithFilepaths \o ValidationErrors(target_files)
    /\ pc' = "submit"
    /\ UNCHANGED <<tree, argv3, rootIsDir, max_workers, target_files, futures,
                   completed, workers, broken, stats, output, dest, dirs, run, prev, probe>>

\* one executor.submit of the submission loop; on a broken executor submit
\* raises BrokenProcessPool, which nothing catches
Submit ==
    /\ pc = "submit"
    /\ Len(futures) < Len(valid_files)
    /\ IF broken
       THEN /\ pc' = "crashed"
            /\ futures' = futures
       ELSE /\ pc' = pc
            /\ futures' = Append(futures, Future(valid_files[Len(futures) + 1]))
    /\ UNCHANGED <<tree, argv3, rootIsDir, max_workers, target_files, valid_files,
                   completed, errorArrayWithFilepaths, workers, broken, stats,
                   output, dest, dirs, run, prev, probe>>

\* the end of the submission loop
AllSubmitted ==
    /\ pc = "submit"
    /\ Len(futures) = Len(valid_files)
    /\ completed' = 0
    /\ pc' = "collect"
    /\ UNCHANGED <<tree, argv3, rootIsDir, max_workers, target_files, valid_files,
                   futures, errorArrayWithFilepaths, workers, broken, stats,
                   output, dest, dirs, run, prev, probe>>

\* which branch of the collection loop's try a result takes
CollectBranch(result) ==
    IF result.kind = "exc" THEN "dropped"
    ELSE IF result.kind = "failure" THEN "failure"
    ELSE "success"

\* one iteration of the as_completed loop
Collect ==
    /\ pc = "collect"
    /\ \E i \in 1..Len(futures) :
        /\ futures[i].state = "done"
        /\ futures[i].collected = "no"
        /\ completed' = completed + 1
        /\ futures' = [futures EXCEPT ![i].collected = CollectBranch(futures[i].result)]
        /\ errorArrayWithFilepaths' =
              IF CollectBranch(futures[i].result) = "failure"
              THEN Append(errorArrayWithFilepaths, futures[i].result)
              ELSE errorArrayWithFilepaths
    /\ UNCHANGED <<tree, argv3, rootIsDir, max_workers, pc, target_files, valid_files,
                   workers, broken, stats, output, dest, dirs, run, prev, probe>>

\* statistics computed without waiting for the futures
LoopDoneEarly == TRUE

\* as_completed has yielded every future
LoopDone == \A i \in 1..Len(futures) : futures[i].collected # "no"

\* the end of the loop and of the with block, and the statistics
ComputeStats ==
    /\ pc = "collect"
    /\ LoopDone
    /\ stats' = [kind |-> "stats",
                 files_found |-> Len(target_files),
                 valid_files_processed |-> Len(valid_files),
                 error_count |-> Len(errorArrayWithFilepaths)]
    /\ pc' = "emit"
    /\ UNCHANGED <<tree, argv3, rootIsDir, max_workers, target_files, valid_files,
                   futures, completed, errorArrayWithFilepaths, workers, broken,
                   output, dest, dirs, run, prev, probe>>

\* json.dumps raises TypeError on a bytes value
JsonSerializable(errors) ==
    \A i \in 1..Len(errors) : errors[i].errorMessage.type = "str"

\* __main__: stats['errors'] = errorArrayWithFilepaths; print(json.dumps(stats))
Emit ==
    /\ pc = "emit"
    /\ IF JsonSerializable(errorArrayWithFilepaths)
       THEN /\ output' = [kind |-> "report", stats |-> stats,
                          errors |-> errorArrayWithFilepaths]
            /\ pc' = "done"
       ELSE /\ output' = output
            /\ pc' = "crashed"
    /\ UNCHANGED <<tree, argv3, rootIsDir, max_workers, target_files, valid_files,
                   futures, completed, errorArrayWithFilepaths, workers, broken,
                   stats, dest, dirs, run, prev, probe>>

(***************************************************************************)
(* The pool's worker processes.  A worker takes the oldest pending call,   *)
(* runs process_file_by_extension on it and sends the result back.         *)
(***************************************************************************)
\* an executor that starts a worker process per call, without bound
WorkerInPoolUnbounded(w) == TRUE

\* ProcessPoolExecutor(max_workers=max_workers): the processes the pool runs
WorkerInPool(w) == w <= max_workers

HasPending == \E i \in 1..Len(futures) : futures[i].state = "pending"

NextPending ==
    CHOOSE i \in 1..Len(futures) :
        /\ futures[i].state = "pending"
        /\ \A j \in 1..(i - 1) : futures[j].state # "pending"

TmpInUse == {workers[w].tmp : w \in 1..MaxWorkers} \ {""}

\* a worker starts a call: the dispatch and the converter up to the opening
\* of its output file
StartTask(w) ==
    /\ WorkerInPool(w)
    /\ ~broken
    /\ workers[w].fut = 0
    /\ HasPending
    /\ LET i == NextPending
           f == FileAt(futures[i].path)
           conv == process_file_by_extension(f.path, SKIP_INFO_PLIST)
       IN  \E tmp \in (IF conv = "plist" THEN TmpNames \ TmpInUse ELSE {""}) :
             LET plan == ConverterStart(conv, f, tmp)
             IN  /\ dirs' = dirs \cup plan.mkdirs
                 /\ IF plan.ret.kind = "continue"
                    THEN /\ dest' = DestPut(dest, plan.out, f.path, "partial")
                         /\ workers' = [workers EXCEPT ![w] =
                                [fut |-> i, out |-> plan.out, tmp |-> tmp]]
                         /\ futures' = [futures EXCEPT ![i].state = "running",
                                                       ![i].conv = conv,
                                                       ![i].out = plan.out]
                    ELSE /\ dest' = dest
                         /\ workers' = workers
                         /\ futures' = [futures EXCEPT ![i].state = "done",
                                                       ![i].conv = conv,
                                                       ![i].result = plan.ret]
    /\ UNCHANGED <<tree, argv3, rootIsDir, max_workers, pc, target_files, valid_files,
                   completed, errorArrayWithFilepaths, broken, stats, output, run, prev, probe>>

\* a worker that appends its failure to the list itself
FinishTaskAppending(w) ==
    /\ workers[w].fut # 0
    /\ LET i == workers[w].fut
           f == FileAt(futures[i].path)
           r == ConverterFinish(futures[i].conv, f)
       IN  /\ dest' = IF r.kind = "none"
                      THEN DestPut(dest, workers[w].out, f.path, "complete")
                      ELSE dest
           /\ futures' = [futures EXCEPT ![i].state = "done", ![i].result = r]
           /\ errorArrayWithFilepaths' =
                 IF r.kind = "failure" THEN Append(errorArrayWithFilepaths, r)
                 ELSE errorArrayWithFilepaths
    /\ workers' = [workers EXCEPT ![w] = Idle]
    /\ UNCHANGED <<tree, argv3, rootIsDir, max_workers, pc, target_files, valid_files,
                   completed, broken, stats, output, dirs, run, prev, probe>>

\* the worker writes the output file, in full or in part, and returns
FinishTask(w) ==
    /\ workers[w].fut # 0
    /\ LET i == workers[w].fut
           f == FileAt(futures[i].path)
           r == ConverterFinish(futures[i].conv, f)
       IN  /\ dest' = IF r.kind = "none"
                      THEN DestPut(dest, workers[w].out, f.path, "complete")
                      ELSE dest
           /\ futures' = [futures EXCEPT ![i].state = "done", ![i].result = r]
    /\ workers' = [workers EXCEPT ![w] = Idle]
    /\ UNCHANGED <<tree, argv3, rootIsDir, max_workers, pc, target_files, valid_files,
                   completed, errorArrayWithFilepaths, broken, stats, output, dirs,
                   run, prev, probe>>

\* the call raises in the worker outside the converters' try blocks: the
\* exception is set on the call's future
TaskRaises(w) ==
    /\ WorkerInPool(w)
    /\ ~broken
    /\ workers[w].fut = 0
    /\ HasPending
    /\ futures' = [futures EXCEPT ![NextPending].state = "done",
                                  ![NextPending].result = Raised]
    /\ UNCHANGED <<tree, argv3, rootIsDir, max_workers, pc, target_files, valid_files,
                   completed, errorArrayWithFilepaths, workers, broken, stats, output,
                   dest, dirs, run, prev, probe>>

\* a worker process dies during a call: the executor is broken, it sets
\* BrokenProcessPool on every future that is not done and ends the other workers
WorkerDies(w) ==
    /\ workers[w].fut # 0
    /\ broken' = TRUE
    /\ futures' = [i \in 1..Len(futures) |->
                     IF futures[i].state = "done" THEN futures[i]
                     ELSE [futures[i] EXCEPT !.state = "done", !.result = Raised]]
    /\ workers' = [v \in 1..MaxWorkers |-> Idle]
    /\ UNCHANGED <<tree, argv3, rootIsDir, max_workers, pc, target_files, valid_files,
                   completed, errorArrayWithFilepaths, stats, output, dest, dirs,
                   run, prev, probe>>

(***************************************************************************)
(* A second invocation on the same source tree, into an empty destination. *)
(***************************************************************************)
Rerun ==
    /\ pc = "done"
    /\ run = 1
    /\ run' = 2
    /\ prev' = [kind |-> "run", dest |-> dest, dirs |-> dirs,
                error_count |-> output.stats.error_count, max_workers |-> max_workers]
    /\ max_workers' \in 1..MaxWorkers
    /\ pc' = "main"
    /\ target_files' = <<>>
    /\ valid_files' = <<>>
    /\ futures' = <<>>
    /\ completed' = 0
    /\ errorArrayWithFilepaths' = <<>>
    /\ workers' = [w \in 1..MaxWorkers |-> Idle]
    /\ broken' = FALSE
    /\ stats' = None
    /\ output' = None
    /\ dest' = {}
    /\ dirs' = {}
    /\ UNCHANGED <<tree, argv3, rootIsDir, probe>>

(***************************************************************************)
(* Specifications.                                                         *)
(***************************************************************************)
MainStep ==
    \/ MainCheck
    \/ Discover
    \/ Validate
    \/ Submit
    \/ AllSubmitted
    \/ Collect
    \/ ComputeStats
    \/ Emit

WorkerStep ==
    \/ \E w \in 1..MaxWorkers : StartTask(w)
    \/ \E w \in 1..MaxWorkers : FinishTask(w)

Fault ==
    \/ \E w \in 1..MaxWorkers : TaskRaises(w)
    \/ \E w \in 1..MaxWorkers : WorkerDies(w)

Next == MainStep \/ WorkerStep \/ Fault

Spec == Init /\ [][Next]_vars

\* a run in which no call raises and no worker process dies
NextNoFault == MainStep \/ WorkerStep

SpecNoFault == Init /\ [][NextNoFault]_vars

\* two invocations in a row, no worker fault in either
NextTwoRuns == MainStep \/ WorkerStep \/ Rerun

SpecTwoRuns == Init /\ [][NextTwoRuns]_vars

(***************************************************************************)
(* Properties.                                                             *)
(***************************************************************************)
Converters == {"loctable", "image", "plist"}

LoopEnded == pc \in {"emit", "done"} /\ target_files # <<>>

ErrorEntriesFor(errors, path) == {k \in 1..Len(errors) : errors[k].filepath = path}

\* C1: when the collection loop has ended, every submitted task's outcome was
\* received as a success or as a failure recorded in the error list.
C1_EveryTaskHasOutcome ==
    LoopEnded =>
        \A i \in 1..Len(futures) :
            \/ futures[i].collected = "success"
            \/ /\ futures[i].collected = "failure"
               /\ \E k \in 1..Len(errorArrayWithFilepaths) :
                      errorArrayWithFilepaths[k] = futures[i].result

\* C2: when the report is built, every task whose call crashed (an exception
\* on its future) has a failure entry with its file path in the error list.
C2_CrashBecomesFailure ==
    LoopEnded =>
        \A i \in 1..Len(futures) :
            futures[i].result.kind = "exc" =>
                ErrorEntriesFor(errorArrayWithFilepaths, futures[i].path) # {}

\* C3: with the source root a directory, a run that has ended has printed
\* the report.
C3_RunEmitsReport ==
    (rootIsDir /\ pc \in {"done", "crashed"}) => output.kind = "report"

\* C4: the second run on the same tree, into an empty destination, leaves
\* the destination files the first run left: the same paths, the same contents.
C4_Idempotent ==
    (run = 2 /\ pc = "done") => dest = prev.dest

\* C5: a run with a pool of one worker and a run with a larger pool report
\* the same error count and leave the same set of destination paths.
C5_PoolSizeIndependent ==
    (run = 2 /\ pc = "done" /\ prev.max_workers = 1 /\ max_workers > 1) =>
        /\ output.stats.error_count = prev.error_count
        /\ {e.path : e \in dest} = {e.path : e \in prev.dest}

\* the listed files a dangling symlink stands for
BrokenListed ==
    {f \in tree : ~f.exists /\ f.path[Len(f.path)] \in
        {".loctable", ".png", ".jpg", ".heif", ".ico", ".plist"}}

Validated == pc \in {"submit", "collect", "emit", "done", "crashed"}

BrokenSymlinkRecorded(msg, fn) ==
    \A f \in BrokenListed :
        /\ Validated =>
              \E k \in 1..Len(errorArrayWithFilepaths) :
                  /\ ErrorEntriesFor(errorArrayWithFilepaths, f.path) = {k}
                  /\ errorArrayWithFilepaths[k] = Failure(f.path, Str(msg), fn)
        /\ output.kind = "report" =>
              Cardinality(ErrorEntriesFor(output.errors, f.path)) = 1
        /\ \A i \in 1..Len(futures) : futures[i].path # f.path
        /\ \A e \in dest : e.src # f.path

\* C6 (as amended): a listed path that does not exist has, once validated,
\* exactly one failure, with message "Broken symlink or file not found" and
\* function "find_and_process_files_streaming (validation)"; it is never
\* submitted and no destination file is made from it.
C6_BrokenSymlinkFailure ==
    BrokenSymlinkRecorded("Broken symlink or file not found",
                          "find_and_process_files_streaming (validation)")

\* C6 (as stated): the same with message "broken symlink or file not found"
\* and function tag "discover".
C6_AsStated ==
    BrokenSymlinkRecorded("broken symlink or file not found", "discover")

C6_Witness ==
    /\ pc = "done"
    /\ BrokenListed # {}
    /\ Len(futures) >= 1
    /\ Len(output.errors) = 1

\* C7: a loctable or plist conversion that returned a failure has left no
\* file, whole or partial, at its destination.
C7_NoPartialOnFailure ==
    \A i \in 1..Len(futures) :
        (/\ futures[i].state = "done"
         /\ futures[i].result.kind = "failure"
         /\ futures[i].conv \in {"loctable", "plist"})
        => \A e \in dest : e.src # futures[i].path

\* C8: a file whose name ends in none of the six suffixes is never given to a
\* converter, has no entry in the error list and no destination file.
C8_UnrecognizedSkipped ==
    \A f \in tree :
        f.path[Len(f.path)] \notin {".loctable", ".png", ".jpg", ".heif", ".ico", ".plist"}
        => /\ \A i \in 1..Len(futures) :
                  futures[i].path = f.path => futures[i].conv \notin Converters
           /\ ErrorEntriesFor(errorArrayWithFilepaths, f.path) = {}
           /\ \A e \in dest : e.src # f.path

C8_Witness ==
    /\ pc = "done"
    /\ \E f \in tree : f.path[Len(f.path)] = ".txt"
    /\ \E e \in dest : e.st = "complete"

\* C9: with the skip flag set, an existing Info.plist is given to no
\* converter, makes no destination file and no error entry; with the flag
\* not set, the converter it is given to is the plist converter.
C9_InfoPlistSkipFlag ==
    \A i \in 1..Len(futures) :
        Basename(futures[i].path) = <<"Info", ".plist">> =>
            IF Lower(argv3) = "true"
            THEN /\ futures[i].conv \notin Converters
                 /\ ErrorEntriesFor(errorArrayWithFilepaths, futures[i].path) = {}
                 /\ \A e \in dest : e.src # futures[i].path
            ELSE /\ futures[i].conv \in {"", "plist"}
                 /\ futures[i].collected \in {"success", "failure"}
                        => futures[i].conv = "plist"

C9_Witness ==
    /\ pc = "done"
    /\ Lower(argv3) = "true"
    /\ \E i \in 1..Len(futures) :
          /\ Basename(futures[i].path) = <<"Info", ".plist">>
          /\ futures[i].conv = "skip"
          /\ futures[i].collected = "success"
    /\ \E e \in dest : e.st = "complete"

\* C10: the processed-file counter of the statistics counts the valid paths
\* that are dispatched to a converter, not a skipped Info.plist.
C10_ProcessedCountsDispatched ==
    (stats.kind = "stats") =>
        stats.valid_files_processed =
            Cardinality({i \in 1..Len(valid_files) :
                process_file_by_extension(valid_files[i], SKIP_INFO_PLIST) \in Converters})

(***************************************************************************)
(* The converters' pure parts, called once on arguments drawn at the       *)
(* start: the decoded table of a loctable, a plist's path, an image's path *)
(* and the source root as it is given on the command line.                 *)
(*                                                                         *)
(* A dictionary is the sequence of its <<key, value>> pairs in insertion   *)
(* order, which is the order json.load keeps and a for loop iterates in.   *)
(***************************************************************************)
DictHas(d, k) == \E i \in 1..Len(d) : d[i][1] = k

\* d.get(k, default)
DictGet(d, k, default) ==
    IF DictHas(d, k) THEN d[CHOOSE i \in 1..Len(d) : d[i][1] = k][2] ELSE default

\* f'"{key}" = "{enContent[key]}";\n'
StringsLine(key, value) == <<"\"", key, "\" = \"", value, "\";\n">>

\* for key in enContent: file.write(...)
StringsLines(enContent) ==
    [i \in 1..Len(enContent) |-> StringsLine(enContent[i][1], enContent[i][2])]

\* what a converter call leaves: its return value, the directories it
\* created and the files it wrote
Effect(r, mk, fs) == [ret |-> r, mkdirs |-> mk, files |-> fs]

\* convert_loctable_to_strings without the test of enContent
convert_loctable_unguarded(loctable_file, data) ==
    Effect(None, {RStripSlash(LoctableOutputDir(loctable_file))},
           {[path |-> LoctableOutputFile(loctable_file),
             lines |-> StringsLines(DictGet(data, "en", <<>>))]})

\* convert_loctable_to_strings from the decoded table on, every write succeeding
convert_loctable_to_strings(loctable_file, data) ==
    LET enContent == DictGet(data, "en", <<>>)
    IN  IF enContent = <<>> THEN Effect(None, {}, {})
        ELSE Effect(None, {RStripSlash(LoctableOutputDir(loctable_file))},
                    {[path |-> LoctableOutputFile(loctable_file),
                      lines |-> StringsLines(enContent)]})

LocKeys == {"greeting", "farewell", "title"}
LocValues == {"Hello", "Bye"}

\* the "en" tables: up to MaxKeys distinct keys, in any order
EnContents ==
    UNION {{c \in [1..n -> LocKeys \X LocValues] :
                \A i, j \in 1..n : c[i][1] = c[j][1] => i = j} : n \in 0..MaxKeys}

FrContent == << <<"greeting", "Bonjour">> >>

LocTables ==
    {<<>>, << <<"fr", FrContent>> >>}
    \cup {<< <<"en", c>> >> : c \in EnContents}
    \cup {<< <<"fr", FrContent>>, <<"en", c>> >> : c \in EnContents}
    \cup {<< <<"en", c>>, <<"fr", FrContent>> >> : c \in EnContents}

Probe(fn, path, root, data) ==
    [fn |-> fn, path |-> path, root |-> root, data |-> data, done |-> FALSE,
     result |-> None]

LoctableProbes ==
    {Probe("loctable", path, parsedFolderPath, d) :
        path \in {Under(<<"a", "/", "Localizable", ".loctable">>),
                  Under(<<"Localizable", ".loctable">>)},
        d \in LocTables}

ProbeLoctable ==
    /\ probe.fn = "loctable"
    /\ ~probe.done
    /\ probe' = [probe EXCEPT !.done = TRUE,
                              !.result = convert_loctable_to_strings(probe.path, probe.data)]
    /\ UNCHANGED <<tree, argv3, rootIsDir, max_workers, pc, target_files, valid_files,
                   futures, completed, errorArrayWithFilepaths, workers, broken,
                   stats, output, dest, dirs, run, prev>>

\* C11: a loctable whose decoded table has no "en" entry gives success, no
\* destination file and no directory; one whose "en" entry has keys gives
\* exactly one .strings file, in an en.lproj directory, whose lines are
\* "<key>" = "<value>"; one per key, in the order of the table.
C11_LoctableEnOnly ==
    (probe.fn = "loctable" /\ probe.done) =>
        LET en == DictGet(probe.data, "en", <<>>)
            r == probe.result
        IN  /\ ~DictHas(probe.data, "en") =>
                  r.ret = None /\ r.files = {} /\ r.mkdirs = {}
            /\ (DictHas(probe.data, "en") /\ Len(en) > 0) =>
                  /\ r.ret = None
                  /\ Cardinality(r.files) = 1
                  /\ \A f \in r.files :
                        /\ EndsWith(f.path, <<".strings">>)
                        /\ Basename(Dirname(f.path)) = <<"en", ".lproj">>
                        /\ Dirname(f.path) \in r.mkdirs
                        /\ Len(f.lines) = Len(en)
                        /\ \A i \in 1..Len(en) :
                              f.lines[i] = <<"\"", en[i][1], "\" = \"", en[i][2], "\";\n">>

C11_Witness ==
    /\ probe.fn = "loctable"
    /\ probe.done
    /\ Len(DictGet(probe.data, "en", <<>>)) = 2
    /\ \E f \in probe.result.files :
          f.path = <<"/", "repo", "/", "System", "/", "a", "/", "en", ".lproj", "/",
                     "Localizable", ".strings">>

\* the components of a path, split at "/"
RECURSIVE Components(_)
Components(p) ==
    IF p = <<>> THEN <<>>
    ELSE IF LastSlash(p) = 0 THEN <<p>>
    ELSE Append(Components(SubSeq(p, 1, LastSlash(p) - 1)), Basename(p))

PlistProbes ==
    {Probe("plist", Under(rel), parsedFolderPath, <<>>) :
        rel \in {<<"a", "/", "Q", ".plist">>,
                 <<"a", "/", "en", ".lproj", "/", "Q", ".plist">>,
                 <<"a", "/", "fr", ".lproj", "/", "Q", ".plist">>,
                 <<"a", "/", "fr", ".lproj", "/", "sub", "/", "Q", ".plist">>,
                 <<"a", "/", "zh", "en", ".lproj", "/", "Q", ".plist">>,
                 <<"a", "/", "fr", ".lproj", "/", "en", ".lproj", ".plist">>,
                 <<"a", "/", "en", ".lproj", "/", "fr", ".lproj", "/", "Q", ".plist">>,
                 <<"a", "/", "Q", ".xml", ".plist">>}}

\* add_plist_file_to_repo up to the copy, plutil succeeding
ProbePlist ==
    /\ probe.fn = "plist"
    /\ ~probe.done
    /\ probe' = [probe EXCEPT !.done = TRUE,
                              !.result = add_plist_start(
                                  [path |-> probe.path, exists |-> TRUE, env |-> "ok"],
                                  "tmpA")]
    /\ UNCHANGED <<tree, argv3, rootIsDir, max_workers, pc, target_files, valid_files,
                   futures, completed, errorArrayWithFilepaths, workers, broken,
                   stats, output, dest, dirs, run, prev>>

\* the directories of the relative path that are locale bundles other than
\* en.lproj
NonEnglishBundles(file_path) ==
    LET cs == Components(Dirname(SubSeq(file_path, Len(parsedFolderPath) + 2,
                                        Len(file_path))))
    IN  {i \in 1..Len(cs) : EndsWith(cs[i], <<".lproj">>) /\ cs[i] # <<"en", ".lproj">>}

\* C12: a plist under a locale bundle directory other than en.lproj is a
\* no-op success: no failure, no destination file and no directory, also when
\* the bundle's name or another component contains the text en.lproj.
C12_NonEnglishPlistNoOp ==
    (probe.fn = "plist" /\ probe.done /\ NonEnglishBundles(probe.path) # {}) =>
        /\ probe.result.ret = None
        /\ probe.result.mkdirs = {}
        /\ probe.result.out = <<>>

\* the source root as it may be written on the command line
RootForms == {parsedFolderPath, parsedFolderPath \o <<"/">>}

\* paths os.walk gives under the root
ProbePaths ==
    {Under(rel) :
        rel \in {<<"icon", ".png">>,
                 <<"b", "/", "icon", ".png">>,
                 <<"b", "/", "c", "/", "logo", ".jpg">>,
                 <<"b", "/", "src", "/", "System", "/", "icon", ".png">>}}

ImageProbes == {Probe("image", path, root, <<>>) : path \in ProbePaths, root \in RootForms}

RelProbes == {Probe("rel", path, root, <<>>) : path \in ProbePaths, root \in RootForms}

\* add_image_file_to_repo: the file cp creates
ProbeImage ==
    /\ probe.fn = "image"
    /\ ~probe.done
    /\ probe' = [probe EXCEPT !.done = TRUE,
                              !.result = ImageOutputFileIn(probe.path, probe.root,
                                                           finalBaseRepoImagesPath)]
    /\ UNCHANGED <<tree, argv3, rootIsDir, max_workers, pc, target_files, valid_files,
                   futures, completed, errorArrayWithFilepaths, workers, broken,
                   stats, output, dest, dirs, run, prev>>

\* relPathInDMG as the converters compute it
ProbeRel ==
    /\ probe.fn = "rel"
    /\ ~probe.done
    /\ probe' = [probe EXCEPT !.done = TRUE,
                              !.result = RelPathInDMG(probe.path, probe.root)]
    /\ UNCHANGED <<tree, argv3, rootIsDir, max_workers, pc, target_files, valid_files,
                   futures, completed, errorArrayWithFilepaths, workers, broken,
                   stats, output, dest, dirs, run, prev>>

\* the path below the source root: what follows the root and its separator
Below(file_path) == SubSeq(file_path, Len(parsedFolderPath) + 2, Len(file_path))

\* C13: the image at relative path R under source root S is copied to
\* <images root>/<base name of S>/R, whether or not S is written with a
\* trailing separator.
C13_ImageDestination ==
    (probe.fn = "image" /\ probe.done) =>
        probe.result =
            finalBaseRepoImagesPath \o <<"/", "System", "/">> \o Below(probe.path)

\* C14: the relative path is the path with only the leading occurrence of
\* the source root and the leading separator removed; later occurrences of
\* the root's text stay.
C14_OnlyPrefixStripped ==
    (probe.fn = "rel" /\ probe.done) =>
        probe.result =
            LET rest == SubSeq(probe.path, Len(probe.root) + 1, Len(probe.path))
            IN  IF StartsWith(rest, <<"/">>) THEN Tail(rest) ELSE rest

ProbeInputs == LoctableProbes \cup PlistProbes \cup ImageProbes \cup RelProbes

InitPure ==
    /\ probe \in ProbeInputs
    /\ tree = {}
    /\ argv3 = ""
    /\ rootIsDir = TRUE
    /\ max_workers = 1
    /\ run = 1
    /\ prev = None
    /\ Fresh

NextPure == ProbeLoctable \/ ProbePlist \/ ProbeImage \/ ProbeRel

SpecPure == InitPure /\ [][NextPure]_vars

(***************************************************************************)
(* Properties of the pool and of the report.                               *)
(***************************************************************************)
\* the calls a worker process is executing
Executing == {i \in 1..Len(futures) : futures[i].state = "running"}

BusyWorkers == {w \in 1..MaxWorkers : workers[w].fut # 0}

\* C15: at any moment the number of calls being executed by workers is at
\* most the pool size, however many paths were submitted.
C15_InFlightBounded ==
    /\ Cardinality(Executing) <= max_workers
    /\ Cardinality(BusyWorkers) <= max_workers

C15_Witness ==
    /\ max_workers = 1
    /\ Cardinality(Executing) = 1
    /\ \E i \in 1..Len(futures) : futures[i].state = "pending"

\* C16: once the statistics are computed, every submitted future is done and
\* was taken by the collection loop, and the error list is the one counted:
\* nothing is appended to it afterwards, and the emitted list is that list.
C16_FinalizedAfterAllTasks ==
    (stats.kind = "stats") =>
        /\ \A i \in 1..Len(futures) :
              futures[i].state = "done" /\ futures[i].collected # "no"
        /\ stats.error_count = Len(errorArrayWithFilepaths)
        /\ output.kind = "report" =>
              /\ output.errors = errorArrayWithFilepaths
              /\ output.stats = stats

C16_Witness ==
    /\ output.kind = "report"
    /\ Len(futures) = 2
    /\ \E i \in 1..Len(futures) : futures[i].collected = "failure"

\* C17: every step that changes the error list is a step of the main
\* process, in its validation loop or its collection loop; no worker step
\* changes it.
C17_OnlyCollectorAppends ==
    [][errorArrayWithFilepaths' # errorArrayWithFilepaths =>
          /\ pc \in {"validate", "collect"}
          /\ workers' = workers
          /\ dest' = dest
          /\ dirs' = dirs
          /\ \A i \in 1..Len(futures) :
                /\ futures'[i].state = futures[i].state
                /\ futures'[i].result = futures[i].result]_vars

\* a worker has returned a failure that the main process has not yet taken
C17_Witness ==
    /\ \E i \in 1..Len(futures) :
          /\ futures[i].state = "done"
          /\ futures[i].result.kind = "failure"
          /\ futures[i].collected = "no"
          /\ ErrorEntriesFor(errorArrayWithFilepaths, futures[i].path) = {}
    /\ \E w \in 1..MaxWorkers : workers[w].fut # 0

\* the existing files of the tree with a recognized suffix
Recognized ==
    {f \in tree : f.exists /\ f.path[Len(f.path)] \in
        {".loctable", ".png", ".jpg", ".heif", ".ico", ".plist"}}

SubmissionsOf(path) == {i \in 1..Len(futures) : futures[i].path = path}

\* C18: no path is submitted twice, and when the run is past the submission
\* loop every existing file with a recognized suffix was submitted once.
C18_SubmittedExactlyOnce ==
    /\ \A f \in tree : Cardinality(SubmissionsOf(f.path)) <= 1
    /\ target_files # <<>> /\ pc \in {"collect", "emit", "done", "crashed"} =>
          \A f \in Recognized : Cardinality(SubmissionsOf(f.path)) = 1

\* C19: two distinct source paths dispatched in one run never have the same
\* destination file.
C19_DistinctDestinations ==
    \A i, j \in 1..Len(futures) :
        (i # j /\ futures[i].out # <<>> /\ futures[j].out # <<>>) =>
            futures[i].out # futures[j].out

\* the validation entries of an error list
ValidationEntries(errors) ==
    {k \in 1..Len(errors) :
        errors[k].function = "find_and_process_files_streaming (validation)"}

\* C20: in the report error_count is the length of the errors list, each
\* discovered file has at most one entry, so error_count <= files_found, and
\* files_found is valid_files_processed plus the number of validation
\* failures; so on the early return with no file as well.
C20_ReportCounts ==
    (output.kind = "report") =>
        /\ output.stats.error_count = Len(output.errors)
        /\ \A f \in tree : Cardinality(ErrorEntriesFor(output.errors, f.path)) <= 1
        /\ \A k \in 1..Len(output.errors) :
              \E f \in tree : f.path = output.errors[k].filepath
        /\ output.stats.error_count <= output.stats.files_found
        /\ output.stats.files_found =
              output.stats.valid_files_processed
                + Cardinality(ValidationEntries(output.errors))

C20_Witness ==
    /\ output.kind = "report"
    /\ Cardinality(ValidationEntries(output.errors)) = 1
    /\ Len(output.errors) = 2

====
